---- MODULE Spec2Model ----
(***************************************************************************)
(* Two parts of the Avnet Azure Sphere samples:                            *)
(*                                                                         *)
(*  - the deferred OTA update logic of the default project                 *)
(*    (Samples/AvnetDefaultProject/HighLevelExampleApp/avnet/              *)
(*    deferred_updates.c), with the record it keeps in mutable storage;    *)
(*  - the device twin table and the IoT Hub connection of the RSL10 sensor *)
(*    sample (Samples/AvnetRSL10Sensor/device_twin.c and main.c).          *)
(*                                                                         *)
(* The module state is the set of file-scope variables of these files, the *)
(* exitCode of the application and `last', which records the calls the     *)
(* last handler made to the platform (SysEvent_DeferEvent,                 *)
(* SysEvent_ResumeEvent, write(2), updateDeviceTwin, the twin handlers,    *)
(* SetUpAzureIoTHubClient) together with the handler's inputs.  Each       *)
(* specification runs the handlers of one of the two applications.         *)
(*                                                                         *)
(* C strings are sequences of one-character strings, or their length where *)
(* only the length matters.  Times are seconds since the epoch; the device *)
(* clock and mktime() both work in UTC.                                    *)
(***************************************************************************)
EXTENDS Integers, Sequences, FiniteSets, TLC

VARIABLES
    otaTargetUtcHour,       \* static int otaTargetUtcHour
    otaTargetUtcMinute,     \* static int otaTargetUtcMinute
    acceptOtaUpdate,        \* static bool acceptOtaUpdate
    deferredOtaUpdateTime,  \* static int deferredOtaUpdateTime (minutes)
    pendingOtaUpdate,       \* static bool pendingOtaUpdate
    otaUpdateInProgress,    \* static bool otaUpdateInProgress
    otaUpdateEventReg,      \* static EventRegistration *otaUpdateEventReg
    exitCode,               \* extern volatile sig_atomic_t exitCode
    mutableFile,            \* fields of the delayTimeUTC_t held by the mutable file
    appCrashed,             \* the process was killed inside a handler
    last,                   \* the last handler run: inputs and platform calls
    hist,                   \* what happened since the calls the properties speak of
    \* Samples/AvnetRSL10Sensor: main.c and device_twin.c
    iotHubClientAuthenticationState,  \* static IoTHubClientAuthenticationState
    iothubClientHandle,               \* IOTHUB_DEVICE_CLIENT_LL_HANDLE iothubClientHandle
    azureIoTPollPeriodSeconds,        \* static int azureIoTPollPeriodSeconds
    desiredVersion,                   \* int desiredVersion
    requireRsl10Authorization,        \* the variable of the first twinArray entry
    telemetryPollPeriod,              \* int telemetryPollPeriod
    Rsl10DeviceList                   \* authorizedBdAddress and isActive of each RSL10Device_t

\* the variables of the cloud connection and of the device twin table
cloudVars == <<iotHubClientAuthenticationState, iothubClientHandle,
               azureIoTPollPeriodSeconds, desiredVersion, requireRsl10Authorization,
               telemetryPollPeriod, Rsl10DeviceList>>

\* the variables of the deferred update logic
otaVars == <<otaTargetUtcHour, otaTargetUtcMinute, acceptOtaUpdate,
             deferredOtaUpdateTime, pendingOtaUpdate, otaUpdateInProgress,
             otaUpdateEventReg, mutableFile, hist>>

vars == <<otaTargetUtcHour, otaTargetUtcMinute, acceptOtaUpdate,
          deferredOtaUpdateTime, pendingOtaUpdate, otaUpdateInProgress,
          otaUpdateEventReg, exitCode, mutableFile, appCrashed, last, hist,
          iotHubClientAuthenticationState, iothubClientHandle,
          azureIoTPollPeriodSeconds, desiredVersion, requireRsl10Authorization,
          telemetryPollPeriod, Rsl10DeviceList>>

-----------------------------------------------------------------------------
(* Program constants                                                       *)

DEFAULT_OTA_DEFER_PERIOD_MINUTES == 0
TempTargetTimeSize == 16
ReturnStringSize == 9
TargetStringLen == 8
MaxHour == 23
MaxMinute == 59
Uint8Mod == 256
Uint16Max == 65535
SecondsPerMinute == 60
SecondsPerDay == 86400

(* Bounds of the model                                                     *)

MaxPausePeriod == 1     \* delayOtaUpdates is called with 0..MaxPausePeriod and Uint16Max
MaxDeferralSmall == 1   \* the OS offers 0..MaxDeferralSmall minutes, a week or the largest unsigned
PartialFields == 1      \* a short write transfers this many fields of the record (fewer than all)
MaxWritesCounted == 2   \* the writes of one run of repeated twin updates are counted up to this
ExtraStringLen == 2     \* twin strings are tried up to TempTargetTimeSize + ExtraStringLen characters
MaxTelemetryPeriod == 1 \* telemetryPollTime is sent as 0..MaxTelemetryPeriod seconds
MaxDesiredVersion == 2  \* $version is sent as 1..MaxDesiredVersion

-----------------------------------------------------------------------------
(* Integer conversions of the C code                                       *)

\* A 32-bit quantity is held as the value of its bit pattern read as a signed
\* int: the unsigned number u >= 2^31 is held as u - 2^32, so -1 is the largest
\* unsigned int.  Converting between int and unsigned int keeps the pattern.
UintMax == -1

\* a > b for two 32-bit patterns compared as unsigned numbers
UnsignedGreater(a, b) == IF (a < 0) = (b < 0) THEN a > b ELSE a < 0

UnsignedLess(a, b) == UnsignedGreater(b, a)

\* the smaller of two 32-bit patterns read as unsigned numbers
UnsignedMin(a, b) == IF UnsignedGreater(a, b) THEN b ELSE a

ToUint8(x) == x % Uint8Mod

\* C integer division truncates toward zero
CDiv(a, b) == IF a >= 0 THEN a \div b ELSE -((-a) \div b)

Min(a, b) == IF a < b THEN a ELSE b

-----------------------------------------------------------------------------
(* Values                                                                  *)

ExitCodes == {"ExitCode_Success",
              "ExitCode_UpdateCallback_UnexpectedEvent",
              "ExitCode_UpdateCallback_GetUpdateEvent",
              "ExitCode_UpdateCallback_DeferEvent",
              "ExitCode_UpdateCallback_FinalUpdate",
              "ExitCode_UpdateCallback_UnexpectedStatus",
              "ExitCode_WriteFile_OpenMutableFile",
              "ExitCode_WriteFile_Write",
              "ExitCode_ReadFile_OpenMutableFile",
              "ExitCode_ReadFile_Read"}

\* an assignment to exitCode that a callee may or may not make
NoExit == "unchanged"
AssignExit(old, new) == IF new = NoExit THEN old ELSE new

\* delayTimeUTC_t as the sequence of its fields
DelayTimeUTC(hour, minute, accept) == <<hour, minute, accept>>
FieldsOfDelayTimeUTC == 3
BytesPerField == 4
SizeofDelayTimeUTC == FieldsOfDelayTimeUTC * BytesPerField

\* the defaults of `last': no input, no platform call
NoLast == [op |-> "none", status |-> "none", maxDeferral |-> 0, timeNow |-> 0,
           pausePeriod |-> 0, twinIsString |-> FALSE, twinStr |-> <<>>,
           ioRead |-> "none", ioWrite |-> "none",
           newDelayTime |-> <<>>, deferEvent |-> <<>>, resumeEvent |-> 0,
           dataToWrite |-> <<>>, wrote |-> FALSE, writeResult |-> <<>>,
           reported |-> <<>>, accepted |-> FALSE,
           repeatWrites |-> 0, repeatFault |-> FALSE]

-----------------------------------------------------------------------------
(* Mutable storage                                                         *)

IoReadOutcomes == {"ok", "openFail", "readError"}
\* write() transfers the whole record, fails, or transfers only its first
\* PartialFields fields
IoWriteOutcomes == {"ok", "openFail", "writeError", "short"}

\* ReadDelayTimeUTCFromMutableFile.  `garbage' is what the caller's
\* uninitialised readData holds.  read() returning -1 is compared with
\* sizeof() as an unsigned number, so the function then returns true and the
\* caller uses the uninitialised record.
ReadDelayTimeUTCFromMutableFile(file, io, garbage) ==
    IF io = "openFail"
    THEN [ok |-> FALSE, data |-> garbage, exit |-> "ExitCode_ReadFile_OpenMutableFile"]
    ELSE LET ret == IF io = "readError" THEN -1 ELSE Len(file) * BytesPerField
             readData == IF io = "readError" THEN garbage
                         ELSE file \o SubSeq(garbage, Len(file) + 1, FieldsOfDelayTimeUTC)
         IN [ok   |-> ~UnsignedLess(ret, SizeofDelayTimeUTC),
             data |-> readData,
             exit |-> IF ret = -1 THEN "ExitCode_ReadFile_Read" ELSE NoExit]

\* the file after write() transferred the first k fields of data at offset 0
FileAfterWrite(file, data, k) ==
    SubSeq(data, 1, k) \o SubSeq(file, k + 1, Len(file))

\* the record written without looking at what the file holds
WriteDelayTimeUTCToMutableFile_AlwaysWrites(file, dataToWrite, ioR, garbage, ioW) ==
    LET rd == ReadDelayTimeUTCFromMutableFile(file, ioR, garbage)
    IN  [file |-> IF ioW = "ok" THEN FileAfterWrite(file, dataToWrite, FieldsOfDelayTimeUTC)
                  ELSE IF ioW = "short" THEN FileAfterWrite(file, dataToWrite, PartialFields)
                  ELSE file,
         ret |-> ioW = "ok",
         exit |-> IF ioW = "openFail" THEN "ExitCode_WriteFile_OpenMutableFile"
                  ELSE IF ioW = "writeError" THEN "ExitCode_WriteFile_Write" ELSE rd.exit,
         wrote |-> ioW # "openFail"]

\* WriteDelayTimeUTCToMutableFile: the file afterwards, the return value,
\* the assignment to exitCode and whether write() was called
WriteDelayTimeUTCToMutableFile(file, dataToWrite, ioR, garbage, ioW) ==
    LET rd == ReadDelayTimeUTCFromMutableFile(file, ioR, garbage)
    IN  IF rd.ok /\ rd.data[3] = dataToWrite[3] /\ rd.data[1] = dataToWrite[1]
                 /\ rd.data[2] = dataToWrite[2]
        THEN [file |-> file, ret |-> TRUE, exit |-> rd.exit, wrote |-> FALSE]
        ELSE IF ioW = "openFail"
        THEN [file |-> file, ret |-> FALSE,
              exit |-> "ExitCode_WriteFile_OpenMutableFile", wrote |-> FALSE]
        ELSE IF ioW = "writeError"
        THEN [file |-> file, ret |-> FALSE,
              exit |-> "ExitCode_WriteFile_Write", wrote |-> TRUE]
        ELSE IF ioW = "ok"
        THEN [file |-> FileAfterWrite(file, dataToWrite, FieldsOfDelayTimeUTC),
              ret |-> TRUE, exit |-> rd.exit, wrote |-> TRUE]
        ELSE [file |-> FileAfterWrite(file, dataToWrite, PartialFields),
              ret |-> FALSE, exit |-> rd.exit, wrote |-> TRUE]

-----------------------------------------------------------------------------
(* Time                                                                    *)

\* gmtime(): broken-down UTC time; tm_day counts the days since the epoch
\* (it stands for tm_year, tm_mon and tm_mday together)
gmtime(t) == [tm_day  |-> t \div SecondsPerDay,
              tm_hour |-> (t % SecondsPerDay) \div 3600,
              tm_min  |-> (t % 3600) \div SecondsPerMinute,
              tm_sec  |-> t % SecondsPerMinute]

\* mktime(): normalises the fields and returns the seconds since the epoch
mktime(tm) == ((tm.tm_day * 24 + tm.tm_hour) * 60 + tm.tm_min) * SecondsPerMinute + tm.tm_sec

\* the target is moved to the next day only if its hour is before the current hour
AdvanceToNextDay(tTarget, tNow) == tTarget.tm_hour < tNow.tm_hour

\* minutes from timeNow to the target time of day (lines 259-290)
MinutesUntilTarget(timeNow, hour, minute) ==
    LET tNow     == gmtime(timeNow)
        tTarget0 == [gmtime(timeNow) EXCEPT !.tm_hour = hour, !.tm_min = minute, !.tm_sec = 0]
        tTarget  == IF AdvanceToNextDay(tTarget0, tNow)
                    THEN [tTarget0 EXCEPT !.tm_day = @ + 1]
                    ELSE tTarget0
        targetTime == mktime(tTarget)
    IN  CDiv(targetTime - timeNow, SecondsPerMinute)

\* int newDelayTime against unsigned int max_deferral_time_in_minutes: the
\* comparison is made on unsigned numbers (lines 300-303)
\* the comparison made on signed numbers
ExceedsMaxDeferral_Signed(newDelayTime, maxDeferral) == newDelayTime > maxDeferral

ExceedsMaxDeferral(newDelayTime, maxDeferral) == UnsignedGreater(newDelayTime, maxDeferral)

CapDelay(newDelayTime, maxDeferral) ==
    IF ExceedsMaxDeferral(newDelayTime, maxDeferral) THEN maxDeferral ELSE newDelayTime

-----------------------------------------------------------------------------
(* History kept for the properties: what happened since the calls they     *)
(* speak of.  It is never read by the program.                             *)
(*   delayOpen     delayOtaUpdates(p > 0) was called and since then there   *)
(*                 was no allowOtaUpdates, twin update or restart           *)
(*   deferredSince a Deferred status arrived since that call                *)
(*   disabledOpen  the empty string was processed and since then there was  *)
(*                 no twin update and no delayOtaUpdates call               *)
(*   accepted      <<hour, minute>> of the last accepted target time, <<>>  *)
(*                 once the empty string is processed                       *)
(*   appCalls      delayOtaUpdates or allowOtaUpdates was called since the  *)
(*                 last accepted target time                                *)
(*   fault         a storage operation failed since the last accepted or    *)
(*                 empty string                                             *)

NoHist == [delayOpen |-> FALSE, deferredSince |-> FALSE, disabledOpen |-> FALSE,
           accepted |-> <<>>, appCalls |-> FALSE, fault |-> FALSE]

\* a flag is kept only while the interval it belongs to is open
History(h) ==
    [h EXCEPT !.deferredSince = @ /\ h.delayOpen,
              !.appCalls = @ /\ h.accepted # <<>>,
              !.fault = @ /\ (h.accepted # <<>> \/ h.disabledOpen)]

-----------------------------------------------------------------------------
(* deferredOtaUpdate_Init, run when the application starts                 *)

RegistrationOutcomes == {"registered", "NULL"}

\* The application runs its event loop, and with it every handler below, only
\* after a successful initialisation and while exitCode is ExitCode_Success;
\* a process killed inside a handler runs nothing until it is started again.
EventLoopRuns ==
    /\ ~appCrashed
    /\ exitCode = "ExitCode_Success"
    /\ otaUpdateEventReg = "registered"

deferredOtaUpdate_Init(ioR, garbage, registration) ==
    LET rd == ReadDelayTimeUTCFromMutableFile(mutableFile, ioR, garbage)
    IN  /\ otaTargetUtcHour' = IF rd.ok THEN rd.data[1] ELSE 0
        /\ otaTargetUtcMinute' = IF rd.ok THEN rd.data[2] ELSE 0
        /\ acceptOtaUpdate' = IF rd.ok THEN rd.data[3] ELSE TRUE
        /\ deferredOtaUpdateTime' = DEFAULT_OTA_DEFER_PERIOD_MINUTES
        /\ pendingOtaUpdate' = FALSE
        /\ otaUpdateInProgress' = FALSE
        /\ otaUpdateEventReg' = registration
        \* a new process starts with exitCode = ExitCode_Success
        /\ exitCode' = AssignExit("ExitCode_Success", rd.exit)
        /\ appCrashed' = FALSE
        /\ last' = [NoLast EXCEPT !.op = "init", !.ioRead = ioR]
        /\ hist' = History([hist EXCEPT !.delayOpen = FALSE, !.deferredSince = FALSE,
                                !.fault = @ \/ ioR # "ok"])
        /\ UNCHANGED mutableFile
        /\ UNCHANGED cloudVars

-----------------------------------------------------------------------------
(* deferredOtaUpdateCallback                                               *)

\* the delay before capping: deferredOtaUpdateTime, or the minutes to the target time
NewDelayTime(timeNow) ==
    IF deferredOtaUpdateTime = 0
    THEN MinutesUntilTarget(timeNow, otaTargetUtcHour, otaTargetUtcMinute)
    ELSE deferredOtaUpdateTime

\* a Pending status is allowed when the application accepts updates
AllowsUpdate == acceptOtaUpdate

\* the statuses that clear otaUpdateInProgress, set pendingOtaUpdate and
\* set acceptOtaUpdate (lines 341-366)
\* only the Final status clears the flag
ClearsInProgress_FinalOnly(status) == status = "Final"

ClearsInProgress(status) == status \in {"Final", "Deferred"}
SetsPending(status) == status = "Deferred"
SetsAccept(status) == status = "Deferred"

deferredOtaUpdateCallback(event, getUpdateData, status, maxDeferral, timeNow, deferResult) ==
    LET ran      == event = "UpdateReadyForInstall" /\ getUpdateData # -1
        allow    == ran /\ status = "Pending" /\ AllowsUpdate
        defer    == ran /\ status = "Pending" /\ ~AllowsUpdate
        raw      == NewDelayTime(timeNow)
        newDelay == CapDelay(raw, maxDeferral)
    IN  /\ EventLoopRuns
        /\ otaUpdateInProgress' =
              IF allow THEN TRUE
              ELSE IF defer \/ (ran /\ ClearsInProgress(status)) THEN FALSE
              ELSE otaUpdateInProgress
        /\ pendingOtaUpdate' =
              IF defer \/ (ran /\ SetsPending(status)) THEN TRUE
              ELSE IF allow \/ (ran /\ status = "Final") THEN FALSE
              ELSE pendingOtaUpdate
        /\ acceptOtaUpdate' =
              IF ran /\ SetsAccept(status) THEN TRUE ELSE acceptOtaUpdate
        /\ exitCode' =
              IF event # "UpdateReadyForInstall" THEN "ExitCode_UpdateCallback_UnexpectedEvent"
              ELSE IF getUpdateData = -1 THEN "ExitCode_UpdateCallback_GetUpdateEvent"
              ELSE IF defer /\ deferResult = -1 THEN "ExitCode_UpdateCallback_DeferEvent"
              ELSE IF status = "Final" THEN "ExitCode_UpdateCallback_FinalUpdate"
              ELSE IF status \notin {"Pending", "Final", "Deferred", "Complete"}
                   THEN "ExitCode_UpdateCallback_UnexpectedStatus"
              ELSE exitCode
        /\ last' = [NoLast EXCEPT
                      !.op = "callback",
                      !.status = IF ran THEN status ELSE "none",
                      !.maxDeferral = IF defer THEN maxDeferral ELSE 0,
                      !.timeNow = IF defer /\ deferredOtaUpdateTime = 0 THEN timeNow ELSE 0,
                      !.newDelayTime = IF defer THEN <<raw>> ELSE <<>>,
                      !.deferEvent = IF defer THEN <<newDelay>> ELSE <<>>]
        /\ hist' = History([hist EXCEPT !.deferredSince = @ \/ (ran /\ status = "Deferred")])
        /\ UNCHANGED <<otaTargetUtcHour, otaTargetUtcMinute, deferredOtaUpdateTime,
                       otaUpdateEventReg, mutableFile, appCrashed>>
        /\ UNCHANGED cloudVars

-----------------------------------------------------------------------------
(* delayOtaUpdates, allowOtaUpdates and the polling functions              *)

\* delayOtaUpdates that stores the period but leaves the accept flag alone
delayOtaUpdates_KeepsAccept(pausePeriod) ==
    /\ EventLoopRuns
    /\ acceptOtaUpdate' = acceptOtaUpdate
    /\ deferredOtaUpdateTime' = pausePeriod
    /\ last' = [NoLast EXCEPT !.op = "delayOtaUpdates", !.pausePeriod = pausePeriod]
    /\ hist' = History([hist EXCEPT !.delayOpen = @ \/ pausePeriod > 0,
                            !.deferredSince = IF pausePeriod > 0 THEN FALSE ELSE @,
                            !.disabledOpen = FALSE,
                            !.appCalls = TRUE])
    /\ UNCHANGED <<otaTargetUtcHour, otaTargetUtcMinute, pendingOtaUpdate,
                   otaUpdateInProgress, otaUpdateEventReg, exitCode, mutableFile,
                   appCrashed>>
    /\ UNCHANGED cloudVars

delayOtaUpdates(pausePeriod) ==
    /\ EventLoopRuns
    /\ acceptOtaUpdate' = FALSE
    /\ deferredOtaUpdateTime' = pausePeriod
    /\ last' = [NoLast EXCEPT !.op = "delayOtaUpdates", !.pausePeriod = pausePeriod]
    /\ hist' = History([hist EXCEPT !.delayOpen = @ \/ pausePeriod > 0,
                            !.deferredSince = IF pausePeriod > 0 THEN FALSE ELSE @,
                            !.disabledOpen = FALSE,
                            !.appCalls = TRUE])
    /\ UNCHANGED <<otaTargetUtcHour, otaTargetUtcMinute, pendingOtaUpdate,
                   otaUpdateInProgress, otaUpdateEventReg, exitCode, mutableFile,
                   appCrashed>>
    /\ UNCHANGED cloudVars

\* allowOtaUpdates that also clears the pending flag
allowOtaUpdates_ClearsPending ==
    /\ EventLoopRuns
    /\ acceptOtaUpdate' = TRUE
    /\ deferredOtaUpdateTime' = 0
    /\ pendingOtaUpdate' = FALSE
    /\ last' = [NoLast EXCEPT !.op = "allowOtaUpdates", !.resumeEvent = 1]
    /\ hist' = History([hist EXCEPT !.delayOpen = FALSE, !.deferredSince = FALSE,
                            !.appCalls = TRUE])
    /\ UNCHANGED <<otaTargetUtcHour, otaTargetUtcMinute,
                   otaUpdateInProgress, otaUpdateEventReg, exitCode, mutableFile,
                   appCrashed>>
    /\ UNCHANGED cloudVars

allowOtaUpdates ==
    /\ EventLoopRuns
    /\ acceptOtaUpdate' = TRUE
    /\ deferredOtaUpdateTime' = 0
    /\ last' = [NoLast EXCEPT !.op = "allowOtaUpdates", !.resumeEvent = 1]
    /\ hist' = History([hist EXCEPT !.delayOpen = FALSE, !.deferredSince = FALSE,
                            !.appCalls = TRUE])
    /\ UNCHANGED <<otaTargetUtcHour, otaTargetUtcMinute, pendingOtaUpdate,
                   otaUpdateInProgress, otaUpdateEventReg, exitCode, mutableFile,
                   appCrashed>>
    /\ UNCHANGED cloudVars

OtaUpdateIsInProgress == otaUpdateInProgress

OtaUpdateIsPending == pendingOtaUpdate

-----------------------------------------------------------------------------
(* setOtaTargetUtcTime, the otaTargetUtcTime device twin handler           *)

Digits == {"0", "1", "2", "3", "4", "5", "6", "7", "8", "9"}

isdigit(c) == c \in Digits

DigitValue(c) ==
    CASE c = "0" -> 0 [] c = "1" -> 1 [] c = "2" -> 2 [] c = "3" -> 3 [] c = "4" -> 4
      [] c = "5" -> 5 [] c = "6" -> 6 [] c = "7" -> 7 [] c = "8" -> 8 [] c = "9" -> 9

\* strtoumax() of two digits followed by '\0', stored in a uint8_t
strtoumax2(c1, c2) == ToUint8(DigitValue(c1) * 10 + DigitValue(c2))

\* strnlen(tempTargetTime, 16) after strncpy(tempTargetTime, str, 16)
stringSize(str) == Min(Len(str), TempTargetTimeSize)

\* strncpy(returnString, tempTargetTime, strlen(tempTargetTime)) reads past
\* tempTargetTime when that buffer holds no terminator and writes past
\* returnString when more than ReturnStringSize characters are copied
CopyOverflows(str) == Len(str) >= TempTargetTimeSize \/ Len(str) > ReturnStringSize

\* the checks of lines 563-588, in the order of the code
HasTargetLength(str) == stringSize(str) = TargetStringLen
HasColons(str) == str[3] = ":" /\ str[6] = ":"
HasDigits(str) == isdigit(str[1]) /\ isdigit(str[2]) /\ isdigit(str[4]) /\ isdigit(str[5])
\* the hour checked against 24
HourInRange_OffByOne(tempHH) == ~(tempHH > MaxHour + 1)

\* the minute checked against 60
MinuteInRange_OffByOne(tempMM) == ~(tempMM > MaxMinute + 1)

HourInRange(tempHH) == ~(tempHH > MaxHour)
MinuteInRange(tempMM) == ~(tempMM > MaxMinute)

AcceptsTargetTime(str) ==
    /\ HasTargetLength(str)
    /\ HasColons(str)
    /\ HasDigits(str)
    /\ HourInRange(strtoumax2(str[1], str[2]))
    /\ MinuteInRange(strtoumax2(str[4], str[5]))

\* returnString with the seconds as they were received
ReturnString_KeepsSeconds(isString, str) ==
    IF isString /\ AcceptsTargetTime(str) THEN SubSeq(str, 1, Len(str)) ELSE <<>>

\* returnString when the handler reaches updateDeviceTwin
ReturnString(isString, str) ==
    IF isString /\ AcceptsTargetTime(str)
    THEN [SubSeq(str, 1, Len(str)) EXCEPT ![7] = "0", ![8] = "0"]
    ELSE <<>>

UbOutcomes == {"benign", "abort"}

\* the empty string handled as the comment of line 557 words it
AcceptAfterEmptyString_False == FALSE

\* acceptOtaUpdate after the empty string (line 622)
AcceptAfterEmptyString == TRUE

\* the resume request tied to the wrong flag
ResumesPendingUpdate_InProgress == otaUpdateInProgress

\* SysEvent_ResumeEvent is requested when an update is pending (line 641)
ResumesPendingUpdate == pendingOtaUpdate

\* isString: json_object_get_string() returned a string (otherwise the key
\* holds a value that is not a string); ub: what the overflowing copy does
setOtaTargetUtcTime(isString, str, ub, ioR, garbage, ioW) ==
    LET aborts   == isString /\ CopyOverflows(str) /\ ub = "abort"
        valid    == isString /\ ~aborts /\ AcceptsTargetTime(str)
        empty    == isString /\ ~aborts /\ stringSize(str) = 0
        rejected == isString /\ ~aborts /\ ~valid /\ ~empty
        through  == ~aborts /\ ~rejected
        newHour  == IF valid THEN strtoumax2(str[1], str[2])
                    ELSE IF empty THEN 0 ELSE otaTargetUtcHour
        newMin   == IF valid THEN strtoumax2(str[4], str[5])
                    ELSE IF empty THEN 0 ELSE otaTargetUtcMinute
        newAcc   == IF valid THEN FALSE
                    ELSE IF empty THEN AcceptAfterEmptyString ELSE acceptOtaUpdate
        dataToWrite == DelayTimeUTC(newHour, newMin, newAcc)
        w        == WriteDelayTimeUTCToMutableFile(mutableFile, dataToWrite, ioR, garbage, ioW)
        ioFailed == ioR # "ok" \/ (w.ret = FALSE)
        \* the handler that ran before this one processed the same twin value
        repeats  == /\ last.op = "setOtaTargetUtcTime"
                    /\ last.twinIsString = isString /\ last.twinStr = str
                    /\ last.writeResult # <<>>
    IN  /\ EventLoopRuns
        /\ appCrashed' = aborts
        /\ otaTargetUtcHour' = newHour
        /\ otaTargetUtcMinute' = newMin
        /\ acceptOtaUpdate' = newAcc
        /\ deferredOtaUpdateTime' = IF valid THEN 0 ELSE deferredOtaUpdateTime
        /\ mutableFile' = IF through THEN w.file ELSE mutableFile
        /\ exitCode' = IF through THEN AssignExit(exitCode, w.exit) ELSE exitCode
        /\ last' = [NoLast EXCEPT
                      !.op = "setOtaTargetUtcTime",
                      !.twinIsString = isString,
                      !.twinStr = str,
                      !.accepted = valid,
                      !.ioRead = IF through THEN ioR ELSE "none",
                      !.ioWrite = IF through /\ (w.wrote \/ ~w.ret) THEN ioW ELSE "none",
                      !.dataToWrite = IF through THEN dataToWrite ELSE <<>>,
                      !.wrote = through /\ w.wrote,
                      !.writeResult = IF through THEN <<w.ret>> ELSE <<>>,
                      !.resumeEvent = IF through /\ ResumesPendingUpdate THEN 1 ELSE 0,
                      !.reported = IF through THEN <<ReturnString(isString, str)>> ELSE <<>>,
                      !.repeatWrites =
                          IF through
                          THEN Min((IF repeats THEN last.repeatWrites ELSE 0)
                                      + (IF w.wrote THEN 1 ELSE 0), MaxWritesCounted)
                          ELSE 0,
                      !.repeatFault = through /\ ((repeats /\ last.repeatFault) \/ ioFailed)]
        /\ hist' = History([hist EXCEPT
                      !.delayOpen = FALSE,
                      !.deferredSince = FALSE,
                      !.disabledOpen = empty,
                      !.accepted = IF valid THEN <<newHour, newMin>>
                                   ELSE IF empty THEN <<>> ELSE @,
                      !.appCalls = IF valid THEN FALSE ELSE @,
                      !.fault = IF valid \/ empty THEN ioFailed
                                ELSE IF through THEN @ \/ ioFailed ELSE @])
        /\ UNCHANGED <<pendingOtaUpdate, otaUpdateInProgress, otaUpdateEventReg>>
        /\ UNCHANGED cloudVars

-----------------------------------------------------------------------------
(* Samples/AvnetRSL10Sensor: the device twin table (device_twin.c)         *)

MAX_DEVICE_TWIN_PAYLOAD_SIZE == 1024 + 1024
MAX_RSL10_DEVICES == 10
RSL10_ADDRESS_LEN == 18

\* The application runs its handlers while exitCode is ExitCode_Success and
\* the process was not killed
Rsl10LoopRuns ==
    /\ ~appCrashed
    /\ exitCode = "ExitCode_Success"

\* A C string is held as what identifies its characters and its length
CString(id, len) == [id |-> id, len |-> len]
EmptyString == CString("", 0)

\* JSON values as parson hands them out: every value has one type, and the
\* getters return a default when asked for another type
JNumber(n) == [type |-> "number", number |-> n, boolean |-> FALSE, string |-> EmptyString]
JBoolean(b) == [type |-> "boolean", number |-> 0, boolean |-> b, string |-> EmptyString]
JString(str) == [type |-> "string", number |-> 0, boolean |-> FALSE, string |-> str]
JNull == [type |-> "null", number |-> 0, boolean |-> FALSE, string |-> EmptyString]

\* a JSON object is a function from the names it holds to their values
json_object_has_value(object, name) == name \in DOMAIN object

\* json_object_get_number() is 0 when the value is not a number
json_object_get_number(object, name) ==
    IF json_object_has_value(object, name) /\ object[name].type = "number"
    THEN object[name].number ELSE 0

\* json_object_get_boolean() is 1, 0, or -1 when the value is not a boolean
json_object_get_boolean(object, name) ==
    IF json_object_has_value(object, name) /\ object[name].type = "boolean"
    THEN (IF object[name].boolean THEN 1 ELSE 0) ELSE -1

\* json_object_get_string(): <<>> stands for NULL
json_object_get_string(object, name) ==
    IF json_object_has_value(object, name) /\ object[name].type = "string"
    THEN <<object[name].string>> ELSE <<>>

TwinEntry(key, var, device, handler) ==
    [twinKey |-> key, twinVar |-> var, device |-> device, twinHandler |-> handler]

AuthorizedMacKey(i) ==
    CASE i = 1 -> "authorizedMac1" [] i = 2 -> "authorizedMac2" [] i = 3 -> "authorizedMac3"
      [] i = 4 -> "authorizedMac4" [] i = 5 -> "authorizedMac5" [] i = 6 -> "authorizedMac6"
      [] i = 7 -> "authorizedMac7" [] i = 8 -> "authorizedMac8" [] i = 9 -> "authorizedMac9"
      [] i = 10 -> "authorizedMac10"

\* twinArray: twinVar names the variable, device the entry of Rsl10DeviceList
twinArray ==
    <<TwinEntry("requireRsl10Authorization", "requireRsl10Authorization", 0,
                "genericBoolDTFunction"),
      TwinEntry("telemetryPollTime", "telemetryPollPeriod", 0, "telemetryTimerDTFunction")>>
    \o [i \in 1 .. MAX_RSL10_DEVICES |->
           TwinEntry(AuthorizedMacKey(i), "Rsl10DeviceList", i, "rsl10AuthorizedDTFunction")]

twinArraySize == Len(twinArray)

\* The twin variables while the table is traversed, with the handlers called
\* so far, the reported properties sent and whether the process was killed
TwinState ==
    [requireRsl10Authorization |-> requireRsl10Authorization,
     telemetryPollPeriod |-> telemetryPollPeriod,
     Rsl10DeviceList |-> Rsl10DeviceList,
     calls |-> <<>>, reports |-> <<>>, timerPeriods |-> <<>>, crashed |-> FALSE]

\* checkAndUpdateDeviceTwin: the key and the value handed to TwinReportState
checkAndUpdateDeviceTwin(tw, property, value) ==
    [tw EXCEPT !.reports = Append(@, <<property, value>>)]

\* (bool)json_object_get_boolean(): -1 becomes true
genericBoolDTFunction(tw, thisTwinPtr, desiredProperties) ==
    LET entry == twinArray[thisTwinPtr]
        value == json_object_get_boolean(desiredProperties, entry.twinKey) # 0
    IN  checkAndUpdateDeviceTwin([tw EXCEPT !.requireRsl10Authorization = value],
                                 entry.twinKey, JBoolean(value))

telemetryTimerDTFunction(tw, thisTwinPtr, desiredProperties) ==
    LET entry == twinArray[thisTwinPtr]
        value == json_object_get_number(desiredProperties, entry.twinKey)
    IN  checkAndUpdateDeviceTwin([tw EXCEPT !.telemetryPollPeriod = value,
                                            !.timerPeriods = Append(@, value)],
                                 entry.twinKey, JNumber(value))

\* strcpy() into authorizedBdAddress writes past the buffer when the string
\* with its terminator is longer than the buffer
AddressCopyOverflows(str) == str.len + 1 > RSL10_ADDRESS_LEN

\* ub: what an overflowing strcpy() does
rsl10AuthorizedDTFunction(tw, thisTwinPtr, desiredProperties, ub) ==
    LET entry  == twinArray[thisTwinPtr]
        got    == json_object_get_string(desiredProperties, entry.twinKey)
        str    == IF got # <<>> THEN got[1] ELSE EmptyString
        killed == AddressCopyOverflows(str) /\ ub = "abort"
    IN  IF killed
        THEN [tw EXCEPT !.crashed = TRUE]
        ELSE checkAndUpdateDeviceTwin(
                 [tw EXCEPT !.Rsl10DeviceList[entry.device] =
                                [authorizedBdAddress |-> str, isActive |-> FALSE]],
                 entry.twinKey, JString(str))

\* twinArray[i].twinHandler(&twinArray[i], desiredProperties)
CallTwinHandler(tw, i, desiredProperties, ub) ==
    LET handler == twinArray[i].twinHandler
        called  == [tw EXCEPT !.calls = Append(@, [entry |-> i, handler |-> handler])]
    IN  CASE handler = "genericBoolDTFunction" ->
                 genericBoolDTFunction(called, i, desiredProperties)
          [] handler = "telemetryTimerDTFunction" ->
                 telemetryTimerDTFunction(called, i, desiredProperties)
          [] handler = "rsl10AuthorizedDTFunction" ->
                 rsl10AuthorizedDTFunction(called, i, desiredProperties, ub)

\* the loop over the table, from entry i on
RECURSIVE TraverseTwinTable(_, _, _, _)
TraverseTwinTable(tw, i, desiredProperties, ub) ==
    IF i > twinArraySize \/ tw.crashed
    THEN tw
    ELSE TraverseTwinTable(
             IF json_object_has_value(desiredProperties, twinArray[i].twinKey)
             THEN CallTwinHandler(tw, i, desiredProperties, ub)
             ELSE tw,
             i + 1, desiredProperties, ub)

\* json_parse_string() of the payload: whether it parses, whether the root is
\* an object, the members of the root other than "desired", and what "desired" is
Payload(size, valid, rootIsObject, root, desiredKind, desired) ==
    [size |-> size, valid |-> valid, rootIsObject |-> rootIsObject, root |-> root,
     desiredKind |-> desiredKind, desired |-> desired]

NoObject == <<>>

\* the object the keys are looked up in: "desired" if it is an object, else the root
DesiredProperties(payload) ==
    IF ~payload.rootIsObject THEN NoObject
    ELSE IF payload.desiredKind = "object" THEN payload.desired
    ELSE payload.root

\* the size check made on size + 1
PayloadTooLarge_OffByOne(payloadSize) == payloadSize > MAX_DEVICE_TWIN_PAYLOAD_SIZE + 1

PayloadTooLarge(payloadSize) == payloadSize > MAX_DEVICE_TWIN_PAYLOAD_SIZE

NoCloudLast == [op |-> "none", payload |-> <<>>, parsed |-> FALSE, desired |-> NoObject,
                calls |-> <<>>, reports |-> <<>>, timerPeriods |-> <<>>,
                consume |-> 0, network |-> "none", setUp |-> "none", result |-> "none"]

DeviceTwinCallback(payload, ub) ==
    LET tooLarge == PayloadTooLarge(payload.size)
        parsed   == ~tooLarge /\ payload.valid
        desiredProperties == DesiredProperties(payload)
        tw == IF parsed THEN TraverseTwinTable(TwinState, 1, desiredProperties, ub)
              ELSE TwinState
    IN  /\ Rsl10LoopRuns
        /\ iothubClientHandle = "registered"
        /\ exitCode' = IF tooLarge THEN "ExitCode_PayloadSize_TooLarge" ELSE exitCode
        /\ desiredVersion' =
              IF parsed /\ json_object_has_value(desiredProperties, "$version")
              THEN json_object_get_number(desiredProperties, "$version")
              ELSE desiredVersion
        /\ requireRsl10Authorization' = tw.requireRsl10Authorization
        /\ telemetryPollPeriod' = tw.telemetryPollPeriod
        /\ Rsl10DeviceList' = tw.Rsl10DeviceList
        /\ appCrashed' = tw.crashed
        /\ last' = [NoCloudLast EXCEPT
                      !.op = "DeviceTwinCallback",
                      !.payload = <<payload>>,
                      !.parsed = parsed,
                      !.desired = IF parsed THEN desiredProperties ELSE NoObject,
                      !.calls = tw.calls,
                      !.reports = tw.reports,
                      !.timerPeriods = tw.timerPeriods]
        /\ UNCHANGED <<iotHubClientAuthenticationState, iothubClientHandle,
                       azureIoTPollPeriodSeconds>>
        /\ UNCHANGED otaVars

-----------------------------------------------------------------------------
(* Samples/AvnetRSL10Sensor: the connection to the IoT Hub (main.c)        *)

AzureIoTDefaultPollPeriodSeconds == 1
AzureIoTMinReconnectPeriodSeconds == 60
AzureIoTMaxReconnectPeriodSeconds == 10 * 60

\* iothubClientHandle is NULL, a client whose callbacks are set ("registered"),
\* a client created without them ("created"), or the address of a client that
\* IoTHubDeviceClient_LL_Destroy released ("destroyed")
HandleValues == {"NULL", "registered", "created", "destroyed"}

\* how SetUpAzureIoTHubClientWithDaa or ...WithDps ends: with a client, before
\* a client is created, with no client, or with a client and a failed option
SetUpOutcomes == {"ok", "initFail", "createNull", "optionFail"}

ConnectionStatusCallback(result) ==
    LET authenticated == result = "IOTHUB_CLIENT_CONNECTION_AUTHENTICATED"
    IN  /\ Rsl10LoopRuns
        /\ iothubClientHandle = "registered"
        /\ iotHubClientAuthenticationState' =
              IF authenticated THEN "Authenticated" ELSE "NotAuthenticated"
        /\ last' = [NoCloudLast EXCEPT
                      !.op = "ConnectionStatusCallback",
                      !.result = result,
                      !.reports = IF authenticated
                                  THEN <<<<"manufacturer", JString(CString("Avnet", 5))>>>>
                                  ELSE <<>>]
        /\ UNCHANGED <<iothubClientHandle, azureIoTPollPeriodSeconds, desiredVersion,
                       requireRsl10Authorization, telemetryPollPeriod, Rsl10DeviceList,
                       exitCode, appCrashed>>
        /\ UNCHANGED otaVars

\* the poll period after a failed set up: the minimum, then doubled up to the maximum
BackOff(period) ==
    IF period = AzureIoTDefaultPollPeriodSeconds
    THEN AzureIoTMinReconnectPeriodSeconds
    ELSE Min(period * 2, AzureIoTMaxReconnectPeriodSeconds)

\* SetUpAzureIoTHubClient: the handle, the state and the poll period afterwards
SetUpAzureIoTHubClient(outcome) ==
    LET released == IF iothubClientHandle # "NULL" THEN "destroyed" ELSE "NULL"
        isClientSetupSuccessful == outcome = "ok"
    IN  [handle |-> CASE outcome = "ok" -> "registered"
                      [] outcome = "optionFail" -> "created"
                      [] outcome = "createNull" -> "NULL"
                      [] outcome = "initFail" -> released,
         state  |-> IF isClientSetupSuccessful THEN "AuthenticationInitiated"
                    ELSE iotHubClientAuthenticationState,
         period |-> IF isClientSetupSuccessful THEN AzureIoTDefaultPollPeriodSeconds
                    ELSE BackOff(azureIoTPollPeriodSeconds)]

\* the client is set up again while the authentication is still under way
NeedsSetUp_UnlessAuthenticated(status) ==
    /\ status = "ConnectedToInternet"
    /\ iotHubClientAuthenticationState # "Authenticated"

\* the condition of lines 441-442
NeedsSetUp(status) ==
    /\ status = "ConnectedToInternet"
    /\ iotHubClientAuthenticationState = "NotAuthenticated"

\* consume: the result of ConsumeEventLoopTimerEvent; network: what
\* Networking_GetInterfaceConnectionStatus reports, or how it fails;
\* ub: what the use of a released client does
AzureTimerEventHandler(consume, network, outcome, ub) ==
    LET consumed   == consume = 0
        callsSetUp == consumed /\ NeedsSetUp(network)
        failed     == consumed /\ network = "error"
        killedInSetUp == callsSetUp /\ iothubClientHandle = "destroyed" /\ ub = "abort"
        setUp      == SetUpAzureIoTHubClient(outcome)
        done       == callsSetUp /\ ~killedInSetUp
        handle     == IF done THEN setUp.handle ELSE iothubClientHandle
        doWork     == consumed /\ ~failed /\ ~killedInSetUp /\ handle # "NULL"
        killedInDoWork == doWork /\ handle = "destroyed" /\ ub = "abort"
    IN  /\ Rsl10LoopRuns
        /\ iothubClientHandle' = handle
        /\ iotHubClientAuthenticationState' =
              IF done THEN setUp.state ELSE iotHubClientAuthenticationState
        /\ azureIoTPollPeriodSeconds' =
              IF done THEN setUp.period ELSE azureIoTPollPeriodSeconds
        /\ exitCode' = IF ~consumed THEN "ExitCode_AzureTimer_Consume"
                       ELSE IF failed THEN "ExitCode_InterfaceConnectionStatus_Failed"
                       ELSE exitCode
        /\ appCrashed' = (killedInSetUp \/ killedInDoWork)
        /\ last' = [NoCloudLast EXCEPT
                      !.op = "AzureTimerEventHandler",
                      !.consume = consume,
                      !.network = IF consumed THEN network ELSE "none",
                      !.setUp = IF callsSetUp THEN outcome ELSE "none"]
        /\ UNCHANGED <<desiredVersion, requireRsl10Authorization, telemetryPollPeriod,
                       Rsl10DeviceList>>
        /\ UNCHANGED otaVars

-----------------------------------------------------------------------------
(* Inputs                                                                  *)

MaxDeferralWeek == 7 * 24 * 60
BaseDay == 19 * 1000

PausePeriods == (0 .. MaxPausePeriod) \cup {Uint16Max}

MaxDeferrals == (0 .. MaxDeferralSmall) \cup {UintMax}

MaxDeferralsWide == MaxDeferrals \cup {MaxDeferralWeek}

\* what an uninitialised delayTimeUTC_t may hold
GarbageRecords == {DelayTimeUTC(0, 0, TRUE), DelayTimeUTC(-1, 99, FALSE)}

TimeOfDay(day, hour, minute, second) ==
    ((day * 24 + hour) * 60 + minute) * SecondsPerMinute + second

Text1302 == <<"1", "3", ":", "0", "2", ":", "0", "0">>
Text2359 == <<"2", "3", ":", "5", "9", ":", "x", "x">>
Text2400 == <<"2", "4", ":", "0", "0", ":", "0", "0">>
Text1201 == <<"1", "2", ":", "0", "1">>

\* the strings and times tried by the full state machine
TwinStrings == {<<>>, Text1302, Text2400}

ClockTimes == {TimeOfDay(BaseDay, 12, 0, 0), TimeOfDay(BaseDay, 13, 30, 30)}

-----------------------------------------------------------------------------
(* The state machine                                                       *)

\* first start on a device whose mutable file is empty
Init ==
    /\ otaTargetUtcHour = 0
    /\ otaTargetUtcMinute = 0
    /\ acceptOtaUpdate = TRUE
    /\ deferredOtaUpdateTime = DEFAULT_OTA_DEFER_PERIOD_MINUTES
    /\ pendingOtaUpdate = FALSE
    /\ otaUpdateInProgress = FALSE
    /\ otaUpdateEventReg = "registered"
    /\ exitCode = "ExitCode_Success"
    /\ mutableFile = <<>>
    /\ appCrashed = FALSE
    /\ last = [NoLast EXCEPT !.op = "init", !.ioRead = "ok"]
    /\ hist = NoHist
    \* the RSL10 application after InitPeripheralsAndHandlers
    /\ iotHubClientAuthenticationState = "NotAuthenticated"
    /\ iothubClientHandle = "NULL"
    /\ azureIoTPollPeriodSeconds = AzureIoTDefaultPollPeriodSeconds
    /\ desiredVersion = 0
    /\ requireRsl10Authorization = FALSE
    /\ telemetryPollPeriod = 0
    /\ Rsl10DeviceList = [i \in 1 .. MAX_RSL10_DEVICES |->
                             [authorizedBdAddress |-> EmptyString, isActive |-> FALSE]]

NoGarbage == DelayTimeUTC(0, 0, TRUE)

\* the storage outcomes tried: at most one of the read and the write fails
StorageInputs ==
    {io \in [r : IoReadOutcomes, g : GarbageRecords, w : IoWriteOutcomes] :
        /\ io.r = "readError" \/ io.g = NoGarbage
        /\ io.r = "ok" \/ io.w = "ok"}

NoStorageInput == [r |-> "ok", g |-> NoGarbage, w |-> "ok"]

Restart ==
    \E io \in StorageInputs, reg \in RegistrationOutcomes :
        /\ io.w = "ok"
        /\ deferredOtaUpdate_Init(io.r, io.g, reg)

\* an input that the handler does not read is held at one value
ReadsDeferral == ~AllowsUpdate
ReadsClock == ~AllowsUpdate /\ deferredOtaUpdateTime = 0

UpdatePending ==
    \E m \in MaxDeferrals, t \in ClockTimes \cup {0}, r \in {0, -1} :
        /\ ReadsDeferral \/ (m = 0 /\ r = 0)
        /\ IF ReadsClock THEN t # 0 ELSE t = 0
        /\ deferredOtaUpdateCallback("UpdateReadyForInstall", 0, "Pending", m, t, r)

\* the other statuses read neither the clock nor the maximum deferral
UpdateFinal == deferredOtaUpdateCallback("UpdateReadyForInstall", 0, "Final", 0, 0, 0)

UpdateDeferred == deferredOtaUpdateCallback("UpdateReadyForInstall", 0, "Deferred", 0, 0, 0)

UpdateComplete == deferredOtaUpdateCallback("UpdateReadyForInstall", 0, "Complete", 0, 0, 0)

UpdateUnexpected ==
    \/ deferredOtaUpdateCallback("NoUpdatesAvailable", 0, "Pending", 0, 0, 0)
    \/ deferredOtaUpdateCallback("UpdateReadyForInstall", -1, "Pending", 0, 0, 0)
    \/ deferredOtaUpdateCallback("UpdateReadyForInstall", 0, "Invalid", 0, 0, 0)

DelayUpdates == \E p \in PausePeriods : delayOtaUpdates(p)

AllowUpdates == allowOtaUpdates

UbInputs(str) == IF CopyOverflows(str) THEN UbOutcomes ELSE {"benign"}

\* the handler gets as far as the mutable file
ReachesStorage(isString, str, ub) ==
    \/ ~isString
    \/ /\ ~(CopyOverflows(str) /\ ub = "abort")
       /\ AcceptsTargetTime(str) \/ stringSize(str) = 0

TwinString(strings, ios) ==
    \E str \in strings : \E ub \in UbInputs(str) :
        \E io \in (IF ReachesStorage(TRUE, str, ub) THEN ios ELSE {NoStorageInput}) :
            setOtaTargetUtcTime(TRUE, str, ub, io.r, io.g, io.w)

TwinNotString ==
    \E io \in StorageInputs : setOtaTargetUtcTime(FALSE, <<>>, "benign", io.r, io.g, io.w)

TwinUpdate == TwinString(TwinStrings, StorageInputs) \/ TwinNotString

Next ==
    \/ Restart
    \/ UpdatePending
    \/ UpdateFinal
    \/ UpdateDeferred
    \/ UpdateComplete
    \/ UpdateUnexpected
    \/ DelayUpdates
    \/ AllowUpdates
    \/ TwinUpdate

Spec == Init /\ [][Next]_vars

-----------------------------------------------------------------------------
(* The deferral period: the Pending event for many clock times and targets *)

TwoDigits(n) == <<CHOOSE c \in Digits : DigitValue(c) = n \div 10,
                  CHOOSE c \in Digits : DigitValue(c) = n % 10>>

TimeText(hh, mm, ss) == hh \o <<":">> \o mm \o <<":">> \o ss

TargetHours == {0, 13, 23}
TargetMinutes == {0, 2, 59}
TargetTexts == {TimeText(TwoDigits(h), TwoDigits(m), <<"0", "0">>) :
                    h \in TargetHours, m \in TargetMinutes}

ClockHours == {0, 13, 23}
ClockMinutes == {0, 2, 59}
ClockSeconds == {0, 59}
ClockTimesWide == {TimeOfDay(BaseDay, h, m, sec) :
                       h \in ClockHours, m \in ClockMinutes, sec \in ClockSeconds}

UpdatePendingWide ==
    \E m \in MaxDeferralsWide, t \in ClockTimesWide \cup {0} :
        /\ ReadsDeferral \/ m = 0
        /\ IF ReadsClock THEN t # 0 ELSE t = 0
        /\ deferredOtaUpdateCallback("UpdateReadyForInstall", 0, "Pending", m, t, 0)

TargetUpdate == TwinString(TargetTexts, {NoStorageInput})

NextDefer ==
    \/ TargetUpdate
    \/ DelayUpdates
    \/ UpdatePendingWide
    \/ UpdateDeferred

SpecDefer == Init /\ [][NextDefer]_vars

-----------------------------------------------------------------------------
(* The twin handler on many strings                                        *)

HourTexts == {<<"0", "0">>, <<"1", "3">>, <<"2", "3">>, <<"2", "4">>, <<"9", "9">>}
MinuteTexts == {<<"0", "2">>, <<"5", "9">>, <<"6", "0">>}

\* strings of the right shape, with seconds that are digits or not
ShapedTexts == {TimeText(hh, mm, <<"0", "0">>) : hh \in HourTexts, mm \in MinuteTexts}
                 \cup {Text2359}

\* the strings the file header lists as invalid: "1:12:00", "12:1:00", "12:01", "a1:12:00"
InvalidExamples == {<<"1", ":", "1", "2", ":", "0", "0">>,
                    <<"1", "2", ":", "1", ":", "0", "0">>,
                    Text1201,
                    <<"a", "1", ":", "1", "2", ":", "0", "0">>}

DropChar(str, i) == SubSeq(str, 1, i - 1) \o SubSeq(str, i + 1, Len(str))
PutChar(str, i, c) == [str EXCEPT ![i] = c]
Padding(k) == [i \in 1 .. k |-> "7"]

MaxTwinLen == TempTargetTimeSize + ExtraStringLen

\* a valid string with one character dropped or replaced, cut short or extended
DamagedTexts ==
    LET str == Text1302
    IN  {DropChar(str, i) : i \in 1 .. Len(str)}
        \cup {PutChar(str, i, "a") : i \in 1 .. Len(str)}
        \cup {PutChar(str, i, ":") : i \in {1, 2, 4, 5}}
        \cup {PutChar(str, i, "9") : i \in {3, 6}}
        \cup {SubSeq(str, 1, k) : k \in 0 .. Len(str)}
        \cup {str \o Padding(k) : k \in 1 .. (MaxTwinLen - Len(str))}

TwinStringsWide == ShapedTexts \cup InvalidExamples \cup DamagedTexts

TwinUpdateWide == TwinString(TwinStringsWide, {NoStorageInput})

\* a Pending event at noon with the largest maximum deferral
UpdatePendingAtNoon ==
    deferredOtaUpdateCallback("UpdateReadyForInstall", 0, "Pending", UintMax,
                              IF ReadsClock THEN TimeOfDay(BaseDay, 12, 0, 0) ELSE 0, 0)

\* the longest period the application can ask for
DelayUpdatesLongest == delayOtaUpdates(Uint16Max)

NextTwin ==
    \/ TwinUpdateWide
    \/ UpdatePendingAtNoon
    \/ DelayUpdatesLongest

SpecTwin == Init /\ [][NextTwin]_vars

-----------------------------------------------------------------------------
(* The RSL10 application: connection and device twin updates               *)

MacA == CString("AA:BB:CC:DD:EE:01", RSL10_ADDRESS_LEN - 1)
MacB == CString("AA:BB:CC:DD:EE:02", RSL10_ADDRESS_LEN - 1)

\* a string that fills what the payload has room for beside its keys
LongString == CString("AAAA...", MAX_DEVICE_TWIN_PAYLOAD_SIZE - 8 * RSL10_ADDRESS_LEN)

SmallPayloadSize == 8 * RSL10_ADDRESS_LEN

JsonPayload(root, desiredKind, desired) ==
    Payload(SmallPayloadSize, TRUE, TRUE, root, desiredKind, desired)

\* the payloads tried: keys at the root or under "desired", keys the table
\* does not hold, values of another type, an over-long address, JSON that is
\* not an object, text that is not JSON and payloads at and over the size limit
TwinPayloads ==
    {JsonPayload(("telemetryPollTime" :> JNumber(MaxTelemetryPeriod)) @@ ("$version" :> JNumber(1)),
                 "absent", NoObject),
     JsonPayload(("telemetryPollTime" :> JNumber(MaxTelemetryPeriod)), "object",
                 ("authorizedMac2" :> JString(MacB)) @@ ("authorizedMac1" :> JString(MacA))
                     @@ ("$version" :> JNumber(MaxDesiredVersion))),
     JsonPayload(NoObject, "object",
                 ("requireRsl10Authorization" :> JBoolean(TRUE))
                     @@ ("telemetryPollTime" :> JNull)
                     @@ ("authorizedMac10" :> JString(MacA))
                     @@ ("unknownKey" :> JNumber(1))),
     JsonPayload(NoObject, "object",
                 ("authorizedMac1" :> JString(LongString)) @@ ("authorizedMac2" :> JString(MacB))),
     JsonPayload(("authorizedMac1" :> JNull) @@ ("requireRsl10Authorization" :> JNumber(0)),
                 "other", NoObject),
     JsonPayload(NoObject, "absent", NoObject),
     Payload(SmallPayloadSize, TRUE, FALSE, NoObject, "absent", NoObject),
     Payload(SmallPayloadSize, FALSE, FALSE, NoObject, "absent", NoObject),
     Payload(MAX_DEVICE_TWIN_PAYLOAD_SIZE, TRUE, TRUE,
             ("authorizedMac3" :> JString(MacA)), "absent", NoObject),
     Payload(MAX_DEVICE_TWIN_PAYLOAD_SIZE + 1, FALSE, FALSE, NoObject, "absent", NoObject)}

\* the strings the handlers copy from a payload
CopiedStrings(payload) ==
    LET object == DesiredProperties(payload)
    IN  {object[k].string : k \in {n \in DOMAIN object : object[n].type = "string"}}

TwinUbInputs(payload) ==
    IF ~PayloadTooLarge(payload.size) /\ payload.valid
          /\ \E str \in CopiedStrings(payload) : AddressCopyOverflows(str)
    THEN UbOutcomes ELSE {"benign"}

TwinReceived ==
    \E payload \in TwinPayloads : \E ub \in TwinUbInputs(payload) :
        DeviceTwinCallback(payload, ub)

ConnectionResults == {"IOTHUB_CLIENT_CONNECTION_AUTHENTICATED",
                      "IOTHUB_CLIENT_CONNECTION_UNAUTHENTICATED"}

ConnectionStatusChanged == \E result \in ConnectionResults : ConnectionStatusCallback(result)

NetworkReports == {"ConnectedToInternet", "NotConnected", "EAGAIN", "error"}

\* an input that the handler does not read is held at one value
AzureTimerEvent ==
    \E consume \in {0, -1}, network \in NetworkReports, outcome \in SetUpOutcomes,
       ub \in UbOutcomes :
        /\ consume = 0 \/ network = "NotConnected"
        /\ (consume = 0 /\ NeedsSetUp(network)) \/ outcome = "ok"
        /\ iothubClientHandle = "destroyed" \/ outcome = "initFail" \/ ub = "benign"
        /\ AzureTimerEventHandler(consume, network, outcome, ub)

NextCloud ==
    \/ AzureTimerEvent
    \/ ConnectionStatusChanged
    \/ TwinReceived

SpecCloud == Init /\ [][NextCloud]_vars

-----------------------------------------------------------------------------
(* Properties of the state machine                                         *)

IsPendingEvent == last.op = "callback" /\ last.status = "Pending"
IsDeferredPending == IsPendingEvent /\ last.deferEvent # <<>>
IsAllowedPending == IsPendingEvent /\ last.deferEvent = <<>>
IsTwinString(l) == l.op = "setOtaTargetUtcTime" /\ l.twinIsString
IsEmptyStringUpdate == IsTwinString(last) /\ last.twinStr = <<>>

\* C1 as claimed: between delayOtaUpdates(pausePeriod > 0) and the next
\* allowOtaUpdates(), with no twin update in between, every Pending event is
\* deferred and none is allowed, whatever status events arrive in between.
C1_EveryPendingDeferred ==
    (IsPendingEvent /\ hist.delayOpen)
        => (last.deferEvent # <<>> /\ ~otaUpdateInProgress)

\* C1 (amended): within one run of the application, between
\* delayOtaUpdates(pausePeriod > 0) and the next allowOtaUpdates(), with no twin
\* update and no Deferred status in between, every Pending event is deferred
\* (SysEvent_DeferEvent is requested) and none is allowed.
C1_PendingDeferredBeforeDeferredStatus ==
    (IsPendingEvent /\ hist.delayOpen /\ ~hist.deferredSince)
        => (last.deferEvent # <<>> /\ ~otaUpdateInProgress)

\* a Pending event is deferred for the requested period inside the interval
C1_Witness ==
    /\ IsDeferredPending
    /\ hist.delayOpen /\ ~hist.deferredSince
    /\ deferredOtaUpdateTime > 0
    /\ pendingOtaUpdate

\* C6 as claimed: assuming storage reads and writes succeed, from the
\* acceptance of HH:MM until the empty string is processed, every
\* deferredOtaUpdate_Init restores the hour and minute of the most recently
\* accepted time and acceptOtaUpdate = false, whatever status events and other
\* twin updates occurred in between.
C6_InitRestoresTarget ==
    (last.op = "init" /\ hist.accepted # <<>> /\ ~hist.fault /\ ~hist.appCalls)
        => /\ otaTargetUtcHour = hist.accepted[1]
           /\ otaTargetUtcMinute = hist.accepted[2]
           /\ acceptOtaUpdate = FALSE

\* C7: when the empty string is received while an update is pending,
\* SysEvent_ResumeEvent is requested, and the Pending event that follows is
\* allowed: otaUpdateInProgress becomes true and no SysEvent_DeferEvent is
\* requested.
C7_EmptyStringReleasesPending ==
    [][(IsEmptyStringUpdate /\ pendingOtaUpdate)
          => /\ last.resumeEvent = 1
             /\ (last'.op = "callback" /\ last'.status = "Pending")
                   => (otaUpdateInProgress' /\ last'.deferEvent = <<>>)]_vars

\* the empty string arrived while a deferred update was pending
C7_Witness ==
    /\ IsEmptyStringUpdate
    /\ pendingOtaUpdate
    /\ last.resumeEvent = 1
    /\ hist.disabledOpen

C9_PolledStatusFollowsEvent ==
    /\ IsAllowedPending => (OtaUpdateIsInProgress /\ ~OtaUpdateIsPending)
    /\ (IsDeferredPending \/ (last.op = "callback" /\ last.status = "Deferred"))
          => (OtaUpdateIsPending /\ ~OtaUpdateIsInProgress)
    /\ (last.op = "callback" /\ last.status = "Final")
          => /\ ~OtaUpdateIsPending /\ ~OtaUpdateIsInProgress
             /\ exitCode = "ExitCode_UpdateCallback_FinalUpdate"

\* a Deferred status arrives while an update is shown as in progress
C9_Witness ==
    /\ last.op = "callback" /\ last.status = "Deferred"
    /\ OtaUpdateIsPending /\ ~OtaUpdateIsInProgress
    /\ acceptOtaUpdate

\* C10: delayOtaUpdates and allowOtaUpdates change neither otaUpdateInProgress
\* nor pendingOtaUpdate and request no SysEvent_DeferEvent, so after an allowed
\* Pending event OtaUpdateIsInProgress() stays true across a delayOtaUpdates call.
C10_CallsDoNotStopUpdate ==
    [][last'.op \in {"delayOtaUpdates", "allowOtaUpdates"}
          => /\ otaUpdateInProgress' = otaUpdateInProgress
             /\ pendingOtaUpdate' = pendingOtaUpdate
             /\ last'.deferEvent = <<>>]_vars

\* delayOtaUpdates was called while an update was in progress
C10_Witness ==
    /\ last.op = "delayOtaUpdates"
    /\ last.pausePeriod > 0
    /\ OtaUpdateIsInProgress
    /\ ~acceptOtaUpdate

\* the twin handler `l' got as far as WriteDelayTimeUTCToMutableFile
ReachedStorage(l) == l.op = "setOtaTargetUtcTime" /\ l.dataToWrite # <<>>

-----------------------------------------------------------------------------
(* Properties of the deferral period                                       *)

TargetInRange ==
    /\ otaTargetUtcHour \in 0 .. MaxHour
    /\ otaTargetUtcMinute \in 0 .. MaxMinute

\* whole minutes from timeNow to the next occurrence of hour:minute, today if
\* that time of day is now or still ahead and tomorrow otherwise
MinutesToNextOccurrence(timeNow, hour, minute) ==
    LET secondOfDay == timeNow % SecondsPerDay
        targetSecond == (hour * 60 + minute) * SecondsPerMinute
        ahead == IF targetSecond >= secondOfDay
                 THEN targetSecond - secondOfDay
                 ELSE targetSecond + SecondsPerDay - secondOfDay
    IN  ahead \div SecondsPerMinute

\* C2 as claimed: when a Pending event is deferred with deferredOtaUpdateTime = 0,
\* the delay computed from the target time, before capping, is never negative
\* and is the number of whole minutes to the next occurrence of the target
\* time of day.
C2_DelayReachesNextOccurrence ==
    (IsDeferredPending /\ deferredOtaUpdateTime = 0 /\ TargetInRange)
        => /\ last.newDelayTime[1] >= 0
           /\ last.newDelayTime[1] =
                 MinutesToNextOccurrence(last.timeNow, otaTargetUtcHour, otaTargetUtcMinute)

\* C3: the minutes passed to SysEvent_DeferEvent never exceed
\* max_deferral_time_in_minutes, and when deferredOtaUpdateTime is non-zero they
\* are min(deferredOtaUpdateTime, max_deferral_time_in_minutes).
C3_DeferralCapped ==
    IsDeferredPending
        => /\ ~UnsignedGreater(last.deferEvent[1], last.maxDeferral)
           /\ deferredOtaUpdateTime # 0
                 => last.deferEvent[1] = UnsignedMin(deferredOtaUpdateTime, last.maxDeferral)

\* a requested period larger than the maximum is truncated to the maximum
C3_Witness ==
    /\ IsDeferredPending
    /\ deferredOtaUpdateTime # 0
    /\ UnsignedGreater(deferredOtaUpdateTime, last.maxDeferral)
    /\ last.deferEvent = <<last.maxDeferral>>

-----------------------------------------------------------------------------
(* Properties of the twin handler                                          *)

\* the format "HH:MM:xx" as the file header describes it
WellFormedTargetTime(str) ==
    /\ Len(str) = 8
    /\ str[3] = ":" /\ str[6] = ":"
    /\ \A i \in {1, 2, 4, 5} : str[i] \in Digits
    /\ DigitValue(str[1]) * 10 + DigitValue(str[2]) <= 23
    /\ DigitValue(str[4]) * 10 + DigitValue(str[5]) <= 59

\* C4: setOtaTargetUtcTime accepts a non-empty string exactly when it is
\* well formed, and then sets otaTargetUtcHour and otaTargetUtcMinute to the
\* parsed values, acceptOtaUpdate to false and deferredOtaUpdateTime to 0.
C4_AcceptsExactlyWellFormed ==
    (IsTwinString(last) /\ last.twinStr # <<>>)
        => /\ last.accepted <=> WellFormedTargetTime(last.twinStr)
           /\ last.accepted
                 => /\ otaTargetUtcHour =
                          DigitValue(last.twinStr[1]) * 10 + DigitValue(last.twinStr[2])
                    /\ otaTargetUtcMinute =
                          DigitValue(last.twinStr[4]) * 10 + DigitValue(last.twinStr[5])
                    /\ acceptOtaUpdate = FALSE
                    /\ deferredOtaUpdateTime = 0

\* a target time replaces another one while a period set by delayOtaUpdates is in force
C4_Witness ==
    /\ IsTwinString(last) /\ last.accepted
    /\ last.twinStr[7] = "x"
    /\ otaTargetUtcHour = 23 /\ otaTargetUtcMinute = 59
    /\ ~acceptOtaUpdate /\ deferredOtaUpdateTime = 0
    /\ mutableFile = DelayTimeUTC(23, 59, FALSE)

\* C5: a rejected string leaves otaTargetUtcHour, otaTargetUtcMinute,
\* acceptOtaUpdate, deferredOtaUpdateTime and the mutable file unchanged,
\* requests no SysEvent_ResumeEvent and sends no reported property.
C5_RejectedChangesNothing ==
    [][(IsTwinString(last') /\ last'.twinStr # <<>> /\ ~WellFormedTargetTime(last'.twinStr))
          => /\ UNCHANGED <<otaTargetUtcHour, otaTargetUtcMinute, acceptOtaUpdate,
                            deferredOtaUpdateTime, mutableFile>>
             /\ last'.resumeEvent = 0
             /\ last'.wrote = FALSE
             /\ last'.reported = <<>>]_vars

\* "12:01" is rejected while an update is pending and a target time is stored
C5_Witness ==
    /\ IsTwinString(last)
    /\ last.twinStr = Text1201
    /\ pendingOtaUpdate
    /\ mutableFile = DelayTimeUTC(13, 2, FALSE)
    /\ otaTargetUtcHour = 13 /\ ~acceptOtaUpdate

\* C11: for every accepted string "HH:MM:xx" the string handed to
\* updateDeviceTwin is "HH:MM:00", the received hour and minute characters
\* with the seconds forced to 00, and for the empty string it is the empty string.
C11_ReportsTargetWithZeroSeconds ==
    /\ (IsTwinString(last) /\ last.accepted)
          => last.reported = <<<<last.twinStr[1], last.twinStr[2], ":",
                                 last.twinStr[4], last.twinStr[5], ":", "0", "0">>>>
    /\ IsEmptyStringUpdate => last.reported = <<<<>>>>

\* "23:59:xx" is accepted and reported as "23:59:00"
C11_Witness ==
    /\ IsTwinString(last) /\ last.accepted
    /\ last.twinStr = Text2359
    /\ last.reported = <<<<"2", "3", ":", "5", "9", ":", "0", "0">>>>

-----------------------------------------------------------------------------
(* Properties of the device twin table and of the connection               *)

IsTwinCallback(l) == l.op = "DeviceTwinCallback"

\* the table entries whose key the object holds, in table order
PresentEntries(object) ==
    SelectSeq([i \in 1 .. twinArraySize |-> i],
              LAMBDA i : twinArray[i].twinKey \in DOMAIN object)

\* the object a payload carries its desired properties in
DesiredObjectOf(payload) ==
    IF payload.rootIsObject /\ payload.desiredKind = "object" THEN payload.desired
    ELSE IF payload.rootIsObject THEN payload.root
    ELSE NoObject

\* C13 as claimed: for a payload that is valid JSON within the size limit,
\* DeviceTwinCallback invokes the twinHandler of every twinArray entry whose
\* twinKey is present in the desired properties (the "desired" object if
\* present, otherwise the root object) exactly once and in table order, passing
\* that entry, and invokes no handler for an entry whose key is absent.
C13_DispatchesPresentKeys ==
    (IsTwinCallback(last) /\ last.payload[1].valid
        /\ last.payload[1].size <= MAX_DEVICE_TWIN_PAYLOAD_SIZE)
        => LET present == PresentEntries(DesiredObjectOf(last.payload[1]))
           IN  last.calls = [k \in 1 .. Len(present) |->
                                [entry |-> present[k],
                                 handler |-> twinArray[present[k]].twinHandler]]

\* C14: a payload larger than MAX_DEVICE_TWIN_PAYLOAD_SIZE sets exitCode to
\* ExitCode_PayloadSize_TooLarge, and a payload that is too large or is not
\* valid JSON invokes no twin handler and leaves desiredVersion and every twin
\* variable unchanged.
C14_RejectedPayloadChangesNothing ==
    [][IsTwinCallback(last')
          => LET payload == last'.payload[1]
                 tooLarge == payload.size > MAX_DEVICE_TWIN_PAYLOAD_SIZE
             IN  /\ tooLarge => exitCode' = "ExitCode_PayloadSize_TooLarge"
                 /\ (tooLarge \/ ~payload.valid)
                       => /\ last'.calls = <<>> /\ last'.reports = <<>>
                          /\ UNCHANGED <<desiredVersion, requireRsl10Authorization,
                                         telemetryPollPeriod, Rsl10DeviceList>>]_vars

\* a payload over the limit arrives after the twin variables were set
C14_Witness ==
    /\ IsTwinCallback(last)
    /\ last.payload[1].size = MAX_DEVICE_TWIN_PAYLOAD_SIZE + 1
    /\ exitCode = "ExitCode_PayloadSize_TooLarge"
    /\ desiredVersion = MaxDesiredVersion
    /\ Rsl10DeviceList[1].authorizedBdAddress = MacA
    /\ telemetryPollPeriod = MaxTelemetryPeriod

\* C15: SetUpAzureIoTHubClient is invoked only when
\* iotHubClientAuthenticationState is NotAuthenticated and the network
\* interface reports ConnectedToInternet; it is never invoked while the state
\* is AuthenticationInitiated or Authenticated, and the state becomes
\* Authenticated only through ConnectionStatusCallback with result
\* IOTHUB_CLIENT_CONNECTION_AUTHENTICATED.
C15_SetUpOnlyWhenNotAuthenticated ==
    [][/\ (last'.op = "AzureTimerEventHandler" /\ last'.setUp # "none")
             => /\ iotHubClientAuthenticationState = "NotAuthenticated"
                /\ last'.network = "ConnectedToInternet"
       /\ (iotHubClientAuthenticationState' = "Authenticated"
              /\ iotHubClientAuthenticationState # "Authenticated")
             => /\ last'.op = "ConnectionStatusCallback"
                /\ last'.result = "IOTHUB_CLIENT_CONNECTION_AUTHENTICATED"]_vars

\* the client is set up again after an authenticated connection was lost
C15_Witness ==
    /\ last.op = "AzureTimerEventHandler"
    /\ last.setUp = "ok"
    /\ iotHubClientAuthenticationState = "AuthenticationInitiated"
    /\ iothubClientHandle = "registered"
    /\ desiredVersion = MaxDesiredVersion

====
